---- MODULE Spec2Model ----
(***************************************************************************)
(* Model of src/main.py (SpeechSynthSubs): text -> SSML with timing marks  *)
(* -> speech service timepoints -> timed segments -> subtitle cues.        *)
(*                                                                         *)
(* A Python string is a sequence of one-character strings.  An Optional    *)
(* float is a sequence of length at most one: None is << >> and the value  *)
(* t is << t >>.  Times are whole seconds.                                 *)
(***************************************************************************)
EXTENDS Integers, Sequences, FiniteSets

VARIABLES pc, text, ssml, mark_count, timepoints, segments, sub, k

vars == <<pc, text, ssml, mark_count, timepoints, segments, sub, k>>

\* ---------------------------------------------------------------- bounds
MaxLen == 4
MaxTime == 1

\* The characters input texts are drawn from: a letter, two kinds of
\* whitespace, a punctuation character, two symbol characters and an
\* excluded quotation mark.
Alphabet == {"a", " ", "\n", ",", "<", ">", "\""}

RECURSIVE SeqsUpTo(_, _)
SeqsUpTo(S, n) ==
    IF n = 0 THEN {<< >>}
    ELSE LET shorter == SeqsUpTo(S, n - 1)
         IN  shorter \cup {Append(s, c) : s \in {x \in shorter : Len(x) = n - 1}, c \in S}

Texts == SeqsUpTo(Alphabet, MaxLen)
Times == 0 .. MaxTime

None == << >>
Some(x) == <<x>>

\* ------------------------------------------------- character classes
\* \s of the regex module and str.strip()
Whitespace == {" ", "\n", "\t", "\r"}
\* \p{P}: ASCII punctuation
Punctuation == {",", ".", "!", "?", ";", ":", "'", "\"", "_", "/", "-",
                "(", ")", "[", "]", "{", "}", "#", "%", "&", "*", "@"}
\* \p{S}: ASCII symbols
Symbols == {"<", ">", "=", "+", "|", "~", "$", "^"}
Digits == <<"0", "1", "2", "3", "4", "5", "6", "7", "8", "9">>

\* line 32, excluded_chars: the ASCII members of the set (both straight quotes)
excluded_chars == {"'", "\""}

\* re.match(pattern, c) for one character c, pattern (\p{P}+|[\r\n]+|\p{S}+)
MatchesPattern_withBlank(c) == c \in Punctuation \cup {"\r", "\n"} \cup Symbols \cup {" "}
MatchesPattern(c) == c \in Punctuation \cup {"\r", "\n"} \cup Symbols

\* ------------------------------------------------------ string helpers
\* str(n) for n >= 0
RECURSIVE ToStr(_)
ToStr(n) == IF n < 10 THEN <<Digits[n + 1]>> ELSE Append(ToStr(n \div 10), Digits[(n % 10) + 1])

\* s.strip()
RECURSIVE LStrip(_)
LStrip(s) == IF s # << >> /\ Head(s) \in Whitespace THEN LStrip(Tail(s)) ELSE s
RECURSIVE RStrip(_)
RStrip(s) ==
    IF s # << >> /\ s[Len(s)] \in Whitespace THEN RStrip(SubSeq(s, 1, Len(s) - 1)) ELSE s
Strip(s) == RStrip(LStrip(s))

\* re.sub(r'\s+', ' ', s): every maximal whitespace run becomes one blank
RECURSIVE Squeeze(_, _)
Squeeze(s, inRun) ==
    IF s = << >> THEN << >>
    ELSE IF Head(s) \in Whitespace
         THEN (IF inRun THEN << >> ELSE <<" ">>) \o Squeeze(Tail(s), TRUE)
         ELSE <<Head(s)>> \o Squeeze(Tail(s), FALSE)

\* line 28: text = re.sub(r'\s+', ' ', text).strip()
Normalise(s) == Strip(Squeeze(s, FALSE))

\* ------------------------------------------------------- text_to_ssml
speak_open == <<"<", "s", "p", "e", "a", "k", ">">>
speak_close == <<"<", "/", "s", "p", "e", "a", "k", ">">>
mark_prefix == <<"<", "m", "a", "r", "k", " ", "n", "a", "m", "e", "=", "\"",
                 "m", "a", "r", "k", "_">>
mark_suffix == <<"\"", "/", ">">>

\* f'<mark name="mark_{mark_index}"/>'
mark_tag(mark_index) == mark_prefix \o ToStr(mark_index) \o mark_suffix

\* line 44: previous_char_was_non_separator or i == 0 (i is 1-based here)
InsertsMark_flagOnly(previous, i) == previous
InsertsMark(previous, i) == previous \/ i = 1

\* lines 40-42: an excluded character leaves the flag as it is
FlagAfterExcluded_reset(previous) == FALSE
FlagAfterExcluded(previous) == previous

\* lines 51-53: the index after the narratable run that starts at i
RECURSIVE RunEnd(_, _)
RunEnd(t, i) ==
    IF i <= Len(t) /\ ~MatchesPattern(t[i]) /\ t[i] \notin excluded_chars
    THEN RunEnd(t, i + 1) ELSE i

\* lines 39-58: the while loop, from index i with the accumulated markup acc
RECURSIVE ssml_loop(_, _, _, _, _)
ssml_loop(t, i, mark_index, previous, acc) ==
    IF i > Len(t)
    THEN [ssml |-> speak_open \o acc \o speak_close, mark_count |-> mark_index]
    ELSE IF t[i] \in excluded_chars
    THEN ssml_loop(t, i + 1, mark_index, FlagAfterExcluded(previous), Append(acc, t[i]))
    ELSE IF MatchesPattern(t[i])
    THEN IF InsertsMark(previous, i)
         THEN ssml_loop(t, i + 1, mark_index + 1, FALSE,
                        Append(acc \o mark_tag(mark_index), t[i]))
         ELSE ssml_loop(t, i + 1, mark_index, FALSE, Append(acc, t[i]))
    ELSE LET e == RunEnd(t, i)
         IN  ssml_loop(t, e, mark_index, TRUE, acc \o SubSeq(t, i, e - 1))

text_to_ssml(raw) == ssml_loop(Normalise(raw), 1, 0, FALSE, << >>)

\* --------------------------------------------------- process_response
\* line 91 and lines 94-95: mark_times[name], None unless the service reported
\* the mark; timepoints maps the index n of each reported mark_n to its time
mark_times(tp, n) == IF n \in DOMAIN tp THEN Some(tp[n]) ELSE None

HasAt(s, p, w) == p + Len(w) - 1 <= Len(s) /\ SubSeq(s, p, p + Len(w) - 1) = w

RECURSIVE DigitRun(_, _)
DigitRun(s, p) ==
    IF p <= Len(s) /\ (\E d \in DOMAIN Digits : Digits[d] = s[p])
    THEN 1 + DigitRun(s, p + 1) ELSE 0

\* line 98: the length of the match of <mark name="mark_\d+"/> at p, 0 if none
MatchMarkAt(s, p) ==
    IF HasAt(s, p, mark_prefix)
    THEN LET d == DigitRun(s, p + Len(mark_prefix))
         IN  IF d >= 1 /\ HasAt(s, p + Len(mark_prefix) + d, mark_suffix)
             THEN Len(mark_prefix) + d + Len(mark_suffix) ELSE 0
    ELSE 0

\* line 98: re.split(r'<mark name="mark_\d+"/>', s), scanning from p with the
\* piece cur under construction
RECURSIVE split_marks(_, _, _)
split_marks(s, p, cur) ==
    IF p > Len(s) THEN <<cur>>
    ELSE LET m == MatchMarkAt(s, p)
         IN  IF m > 0 THEN <<cur>> \o split_marks(s, p + m, << >>)
             ELSE split_marks(s, p + 1, Append(cur, s[p]))

\* the index of the first ">" at or after p that "." can reach (no newline on
\* the way), 0 if there is none
RECURSIVE TagEnd(_, _)
TagEnd(s, p) ==
    IF p > Len(s) THEN 0
    ELSE IF s[p] = ">" THEN p
    ELSE IF s[p] = "\n" THEN 0
    ELSE TagEnd(s, p + 1)

\* line 105: re.sub(r'<.*?>', '', s), scanning from p
RECURSIVE remove_tags(_, _)
remove_tags(s, p) ==
    IF p > Len(s) THEN << >>
    ELSE IF s[p] = "<" /\ TagEnd(s, p + 1) > 0
    THEN remove_tags(s, TagEnd(s, p + 1) + 1)
    ELSE <<s[p]>> \o remove_tags(s, p + 1)

\* line 102: the character class [\p{P}\p{S}\s]
IsUnwanted_noPunct(c) == c \in Symbols \cup Whitespace
IsUnwanted(c) == c \in Punctuation \cup Symbols \cup Whitespace

\* line 107: unwanted_separators.sub('', s), the pattern anchored at the start
RECURSIVE strip_unwanted(_)
strip_unwanted(s) ==
    IF s # << >> /\ IsUnwanted(Head(s)) THEN strip_unwanted(Tail(s)) ELSE s

\* lines 105-108: the text of one piece of the markup
clean_segment(piece) == Strip(strip_unwanted(remove_tags(piece, 1)))

\* lines 111-114: the end time of piece i (0-based, as enumerate counts)
end_time_of_shifted(i, n, tp) == IF i + 1 < n THEN mark_times(tp, i + 1) ELSE None
end_time_of(i, n, tp) == IF i < n THEN mark_times(tp, i) ELSE None

\* line 117: start_time = end_time
next_start_kept(start_time, end_time) == start_time
next_start(start_time, end_time) == end_time

\* lines 104-117: the for loop over the pieces, from piece i (0-based)
RECURSIVE segment_loop(_, _, _, _, _)
segment_loop(pieces, i, n, tp, start_time) ==
    IF i >= Len(pieces) THEN << >>
    ELSE LET segment == clean_segment(pieces[i + 1])
         IN  IF segment # << >>
             THEN LET end_time == end_time_of(i, n, tp)
                  IN  <<[text |-> segment, start |-> start_time, end |-> end_time]>>
                      \o segment_loop(pieces, i + 1, n, tp, next_start(start_time, end_time))
             ELSE segment_loop(pieces, i + 1, n, tp, start_time)

\* lines 88-119
process_response(tp, markup, n) == segment_loop(split_marks(markup, 1, << >>), 0, n, tp, Some(0))

\* ----------------------------------------------------------------- main
\* line 188: the fallback duration in seconds
DefaultDuration == 5

\* pysubs2.make_time(s=x): seconds to milliseconds
make_time(s) == s * 1000

\* what the service may report for n marks: a time for any subset of them
Responses(n) == UNION {[D -> Times] : D \in SUBSET (0 .. n - 1)}

Init ==
    /\ pc = "main"
    /\ text \in Texts
    /\ ssml = << >>
    /\ mark_count = 0
    /\ timepoints = << >>
    /\ segments = << >>
    /\ sub = << >>
    /\ k = 0

\* lines 160-171: the text is read and the API key looked up; without a key
\* the program exits with status 1
MainStart ==
    /\ pc = "main"
    /\ \E api_key \in BOOLEAN : pc' = IF api_key THEN "text_to_ssml" ELSE "exit"
    /\ UNCHANGED <<text, ssml, mark_count, timepoints, segments, sub, k>>

\* line 132
TextToSsml ==
    /\ pc = "text_to_ssml"
    /\ ssml' = text_to_ssml(text).ssml
    /\ mark_count' = text_to_ssml(text).mark_count
    /\ pc' = "call_api"
    /\ UNCHANGED <<text, timepoints, segments, sub, k>>

\* lines 138-139: the service answers with timepoints for some of the marks
CallTextToSpeechApi ==
    /\ pc = "call_api"
    /\ \E tp \in Responses(mark_count) : timepoints' = tp
    /\ pc' = "process_response"
    /\ UNCHANGED <<text, ssml, mark_count, segments, sub, k>>

\* line 142, then line 183
ProcessResponse ==
    /\ pc = "process_response"
    /\ segments' = process_response(timepoints, ssml, mark_count)
    /\ k' = 1
    /\ pc' = "subtitles"
    /\ UNCHANGED <<text, ssml, mark_count, timepoints, sub>>

\* lines 184-193: one iteration of the subtitle loop; start + 5 and
\* make_time(s=None) raise TypeError when the start is None
AppendCue ==
    /\ pc = "subtitles"
    /\ k <= Len(segments)
    /\ LET seg == segments[k]
       IN  IF seg.start = None
           THEN /\ pc' = "error"
                /\ UNCHANGED <<sub, k>>
           ELSE LET start == seg.start[1]
                    end == IF seg.end = None THEN start + DefaultDuration ELSE seg.end[1]
                IN  /\ sub' = Append(sub, [start |-> make_time(start),
                                           end |-> make_time(end),
                                           text |-> seg.text])
                    /\ k' = k + 1
                    /\ pc' = "subtitles"
    /\ UNCHANGED <<text, ssml, mark_count, timepoints, segments>>

\* lines 195-197
SaveSubtitles ==
    /\ pc = "subtitles"
    /\ k > Len(segments)
    /\ pc' = "done"
    /\ UNCHANGED <<text, ssml, mark_count, timepoints, segments, sub, k>>

Next ==
    \/ MainStart
    \/ TextToSsml
    \/ CallTextToSpeechApi
    \/ ProcessResponse
    \/ AppendCue
    \/ SaveSubtitles

Spec == Init /\ [][Next]_vars

\* ------------------------------------------------------------ vocabulary
IsExcluded(c) == c \in excluded_chars
IsSeparator(c) == MatchesPattern(c) /\ c \notin excluded_chars
IsNarratable(c) == ~MatchesPattern(c) /\ c \notin excluded_chars

\* the states right after text_to_ssml / process_response has returned
AfterSsml == pc = "call_api"
AfterResponse == pc = "subtitles" /\ k = 1

NormText == Normalise(text)

\* the separator at position j of t follows a narratable run with nothing but
\* excluded characters in between, or opens the text
Marked(t, j) ==
    /\ IsSeparator(t[j])
    /\ \/ j = 1
       \/ \E i \in 1 .. j - 1 :
            IsNarratable(t[i]) /\ \A m \in i + 1 .. j - 1 : IsExcluded(t[m])

MarkedPositions(t) == {j \in 1 .. Len(t) : Marked(t, j)}

RECURSIVE ExpectedBody(_, _)
ExpectedBody(t, j) ==
    IF j > Len(t) THEN << >>
    ELSE (IF Marked(t, j)
          THEN mark_tag(Cardinality({i \in MarkedPositions(t) : i < j}))
          ELSE << >>)
         \o <<t[j]>> \o ExpectedBody(t, j + 1)

\* the digit strings of the marks of a markup, in order
RECURSIVE MarkNames(_, _)
MarkNames(s, p) ==
    IF p > Len(s) THEN << >>
    ELSE LET m == MatchMarkAt(s, p)
         IN  IF m > 0
             THEN <<SubSeq(s, p + Len(mark_prefix), p + m - Len(mark_suffix) - 1)>>
                  \o MarkNames(s, p + m)
             ELSE MarkNames(s, p + 1)

\* C1: text_to_ssml puts a marker right before a separator exactly when a
\* narratable run was emitted since the last separator (excluded characters
\* in between not counting) or the separator is the first character of the
\* text; the markers are numbered 0, 1, 2, ... from left to right and the
\* returned count is the number of markers in the markup.
C1_MarkerPlacement ==
    AfterSsml =>
        /\ ssml = speak_open \o ExpectedBody(NormText, 1) \o speak_close
        /\ mark_count = Cardinality(MarkedPositions(NormText))
        /\ LET names == MarkNames(ssml, 1)
           IN  /\ Len(names) = mark_count
               /\ \A n \in 1 .. Len(names) : names[n] = ToStr(n - 1)

C1_Witness ==
    /\ AfterSsml
    /\ mark_count >= 2
    /\ Marked(NormText, 1)
    /\ \E j \in 2 .. Len(NormText) : IsSeparator(NormText[j]) /\ ~Marked(NormText, j)

\* the pieces of a markup that yield a segment (1-based indices)
SpokenPieces(pieces) == {i \in 1 .. Len(pieces) : clean_segment(pieces[i]) # << >>}
\* the piece the n-th segment comes from
PieceOf(spoken, n) == CHOOSE i \in spoken : Cardinality({j \in spoken : j <= i}) = n

\* the time the service reported for the mark that follows piece i (1-based)
\* in the markup, whose marks carry the digit strings names: None when no mark
\* follows or the mark was not reported
FollowingMarkTime(names, i) ==
    IF i > Len(names) THEN None
    ELSE IF \E n \in DOMAIN timepoints : ToStr(n) = names[i]
    THEN Some(timepoints[CHOOSE n \in DOMAIN timepoints : ToStr(n) = names[i]])
    ELSE None

\* C2: every segment process_response emits ends at the time the service
\* reported for the marker that follows the segment's text in the markup, and
\* at None when that marker was not reported or no marker follows; empty
\* pieces are skipped without shifting this correspondence.
C2_EndIsFollowingMark ==
    AfterResponse =>
        LET pieces == split_marks(ssml, 1, << >>)
            spoken == SpokenPieces(pieces)
            names == MarkNames(ssml, 1)
        IN  /\ Len(segments) = Cardinality(spoken)
            /\ \A n \in 1 .. Len(segments) :
                 /\ segments[n].text = clean_segment(pieces[PieceOf(spoken, n)])
                 /\ segments[n].end = FollowingMarkTime(names, PieceOf(spoken, n))

C2_Witness ==
    /\ AfterResponse
    /\ Len(segments) >= 2
    /\ segments[1].end # None
    /\ segments[2].end = None
    /\ 1 \notin SpokenPieces(split_marks(ssml, 1, << >>))

\* the reported times are non-negative and non-decreasing in the mark index
MonotoneTimes ==
    \A m, n \in DOMAIN timepoints :
        timepoints[m] >= 0 /\ (m <= n => timepoints[m] <= timepoints[n])

\* C3: the first segment starts at 0, every later segment whose predecessor
\* has a known end starts at that end, and with non-negative, non-decreasing
\* reported times every segment with known start and end has start <= end.
C3_ContiguousTimeline ==
    AfterResponse =>
        /\ segments # << >> => segments[1].start = Some(0)
        /\ \A n \in 2 .. Len(segments) :
             segments[n - 1].end # None => segments[n].start = segments[n - 1].end
        /\ MonotoneTimes =>
             \A n \in 1 .. Len(segments) :
                 (segments[n].start # None /\ segments[n].end # None)
                     => segments[n].start[1] <= segments[n].end[1]

C3_Witness ==
    /\ AfterResponse
    /\ Len(segments) >= 2
    /\ MonotoneTimes
    /\ segments[1].end # None /\ segments[2].end # None
    /\ segments[2].start[1] < segments[2].end[1]

\* C4: a segment whose marker has no reported time leaves the cursor where it
\* was, so the next segment starts at the last known time and no segment has
\* a None start.
C4_CursorKeptOnMissingTime ==
    AfterResponse =>
        /\ \A n \in 1 .. Len(segments) : segments[n].start # None
        /\ \A n \in 2 .. Len(segments) :
             segments[n - 1].end = None => segments[n].start = segments[n - 1].start

\* C5: whatever subset of the markers the service reports, the run from
\* process_response through the subtitle loop ends without a runtime error
\* with one cue per segment, a None end replaced by start + 5 seconds.
C5_SparseResponseTolerated ==
    /\ pc # "error"
    /\ pc = "done" =>
         /\ Len(sub) = Len(segments)
         /\ \A n \in 1 .. Len(sub) :
              /\ sub[n].text = segments[n].text
              /\ sub[n].start = make_time(segments[n].start[1])
              /\ sub[n].end = IF segments[n].end = None
                              THEN make_time(segments[n].start[1] + DefaultDuration)
                              ELSE make_time(segments[n].end[1])

\* C6 as stated: only the last segment of the list may have a None end.
C6_NullEndOnlyFinal ==
    AfterResponse => \A n \in 1 .. Len(segments) - 1 : segments[n].end # None

\* C6 (amended): a segment other than the last has a None end only when the
\* service did not report the marker that follows it; so when the service
\* reports every marker, only the last segment may have a None end.
C6_NullEndOnlyFinalOrUnreported ==
    AfterResponse =>
        LET spoken == SpokenPieces(split_marks(ssml, 1, << >>))
        IN  \A n \in 1 .. Len(segments) - 1 :
                segments[n].end = None => (PieceOf(spoken, n) - 1) \notin DOMAIN timepoints

C6_Witness ==
    /\ AfterResponse
    /\ DOMAIN timepoints = 0 .. mark_count - 1
    /\ mark_count >= 2
    /\ Len(segments) >= 2
    /\ segments[1].end # None
    /\ segments[Len(segments)].end = None

\* s without its excluded characters
RECURSIVE RemoveExcluded(_)
RemoveExcluded(s) ==
    IF s = << >> THEN << >>
    ELSE (IF IsExcluded(Head(s)) THEN << >> ELSE <<Head(s)>>) \o RemoveExcluded(Tail(s))

\* for every separator of the body of a markup, in order: the separator and
\* the digit string of the mark right before it (None when there is none)
RECURSIVE SeparatorMarks(_, _)
SeparatorMarks(s, p) ==
    IF p > Len(s) - Len(speak_close) THEN << >>
    ELSE LET m == MatchMarkAt(s, p)
         IN  IF m > 0
             THEN <<<<s[p + m], Some(SubSeq(s, p + Len(mark_prefix), p + m - Len(mark_suffix) - 1))>>>>
                  \o SeparatorMarks(s, p + m + 1)
             ELSE IF IsSeparator(s[p]) THEN <<<<s[p], None>>>> \o SeparatorMarks(s, p + 1)
             ELSE SeparatorMarks(s, p + 1)

SameMarkers(a, b) ==
    /\ a.mark_count = b.mark_count
    /\ SeparatorMarks(a.ssml, Len(speak_open) + 1) = SeparatorMarks(b.ssml, Len(speak_open) + 1)

\* the segment lists agree once the excluded characters are taken out of the
\* texts of the first (and the whitespace left behind is normalised)
SameTexts(segs, bare) ==
    /\ Len(segs) = Len(bare)
    /\ \A n \in 1 .. Len(segs) : Normalise(RemoveExcluded(segs[n].text)) = bare[n].text

SameTimes(segs, bare) ==
    /\ Len(segs) = Len(bare)
    /\ \A n \in 1 .. Len(segs) : segs[n].start = bare[n].start /\ segs[n].end = bare[n].end

\* C7 as stated: the text and the text without its excluded characters get
\* the same marker count, the same markers before the same separators and the
\* same segments.
C7_ExcludedTransparent ==
    AfterResponse =>
        LET bare == text_to_ssml(RemoveExcluded(text))
            bareSegments == process_response(timepoints, bare.ssml, bare.mark_count)
        IN  /\ SameMarkers([ssml |-> ssml, mark_count |-> mark_count], bare)
            /\ SameTexts(segments, bareSegments)
            /\ SameTimes(segments, bareSegments)

\* the text opens with excluded characters directly followed by a separator
ExcludedThenSeparator(t) ==
    \E j \in 2 .. Len(t) : IsSeparator(t[j]) /\ \A i \in 1 .. j - 1 : IsExcluded(t[i])

\* C7 (amended): the text and the text without its excluded characters always
\* yield the same number and order of segments with the same texts (excluded
\* characters removed); unless the normalised text opens with excluded
\* characters directly followed by a separator, they also get the same marker
\* count, the same markers before the same separators and the same segment
\* times, and in that excepted case the bare text has one marker more.
C7_ExcludedTransparentButAtStart ==
    AfterResponse =>
        LET bare == text_to_ssml(RemoveExcluded(text))
            bareSegments == process_response(timepoints, bare.ssml, bare.mark_count)
        IN  /\ SameTexts(segments, bareSegments)
            /\ IF ExcludedThenSeparator(NormText)
               THEN bare.mark_count = mark_count + 1
               ELSE /\ SameMarkers([ssml |-> ssml, mark_count |-> mark_count], bare)
                    /\ SameTimes(segments, bareSegments)

C7_Witness ==
    /\ AfterResponse
    /\ ~ExcludedThenSeparator(NormText)
    /\ \E j \in 1 .. Len(NormText) : IsExcluded(NormText[j])
    /\ mark_count >= 1
    /\ Len(segments) >= 2
    /\ segments[1].end # None

\* the narratable run the text ends in (empty when it ends otherwise)
RECURSIVE TrailingRun(_)
TrailingRun(t) ==
    IF t # << >> /\ IsNarratable(t[Len(t)])
    THEN Append(TrailingRun(SubSeq(t, 1, Len(t) - 1)), t[Len(t)])
    ELSE << >>

IsSuffix(w, s) == Len(w) <= Len(s) /\ SubSeq(s, Len(s) - Len(w) + 1, Len(s)) = w

\* C8: when the normalised text ends in narratable content, the last segment
\* process_response emits carries that trailing text and has end None,
\* whatever separators come before it and whatever the service reported.
C8_TrailingTextKept ==
    AfterResponse =>
        LET run == TrailingRun(NormText)
        IN  run # << >> =>
                /\ segments # << >>
                /\ IsSuffix(Strip(run), segments[Len(segments)].text)
                /\ segments[Len(segments)].end = None

OnlyBlankOrExcluded(s) == \A i \in 1 .. Len(s) : s[i] \in Whitespace \/ IsExcluded(s[i])

\* C9: for a text of whitespace and excluded characters only (the empty text
\* included) text_to_ssml returns no markers and the normalised text wrapped
\* in the speak tag, and process_response returns no segments.
C9_NothingSpeakable ==
    OnlyBlankOrExcluded(text) =>
        /\ AfterSsml => (mark_count = 0 /\ ssml = speak_open \o NormText \o speak_close)
        /\ AfterResponse => segments = << >>

C9_Witness ==
    /\ AfterResponse
    /\ OnlyBlankOrExcluded(text)
    /\ \E i, j \in 1 .. Len(NormText) : IsExcluded(NormText[i]) /\ NormText[j] = " "
    /\ segments = << >>

NoPunctuation(s) ==
    /\ \A i \in 1 .. Len(s) : s[i] \notin Punctuation \cup Symbols
    /\ \E i \in 1 .. Len(s) : s[i] \notin Whitespace

\* C10: a text with a non-whitespace character and no punctuation or symbol
\* gets no markers and exactly one segment: the whole normalised text, from 0
\* to None.
C10_NoPunctuationOneSegment ==
    NoPunctuation(text) =>
        /\ AfterSsml => mark_count = 0
        /\ AfterResponse =>
             segments = <<[text |-> NormText, start |-> Some(0), end |-> None]>>

C10_Witness ==
    /\ AfterResponse
    /\ NoPunctuation(text)
    /\ text # NormText
    /\ \E i \in 1 .. Len(NormText) : NormText[i] = " "
    /\ Len(segments) = 1

====
